---- MODULE Spec2Model ----
(***************************************************************************)
(* list_lambdas.py: enumeration of the Lambda functions of every region,   *)
(* enriched with the last invocation found in the CloudWatch log streams,  *)
(* filtered by inactivity, sorted, projected to tables and printed /       *)
(* exported to CSV.                                                        *)
(*                                                                         *)
(* A datetime is a day number and the milliseconds within the day; the     *)
(* naive local datetimes of the program are taken in a zone without        *)
(* offset.  The provider (boto3 clients) answers every call                *)
(* nondeterministically from bounded sets.                                 *)
(***************************************************************************)
EXTENDS Integers, Sequences, FiniteSets, TLC

VARIABLES
    args,            \* argparse namespace
    now,             \* the reading of datetime.now()
    pc,              \* position of the single thread of control
    exit_status,     \* process exit status, -1 while running
    exception,       \* uncaught exception that ended the run, None otherwise
    stdout,          \* what was printed, in order
    csv_file,        \* lines written to args.csv, <<>> with csv_written FALSE when untouched
    csv_written,     \* the file at args.csv was opened for writing
    issued,          \* kinds of provider calls issued so far
    regions,         \* print_lambda_list: regions
    ri,              \* index of the region of the for loop (1-based)
    response,        \* print_lambda_list: response
    next_marker,     \* print_lambda_list: next_marker
    fi,              \* index of function_data in functions (1-based)
    last_modified,   \* print_lambda_list: last_modified
    logs,            \* get_last_invocation: outcome of describe_log_streams (SpecResolver)
    last_invocation, \* print_lambda_list: last_invocation
    lambdas_data,    \* print_lambda_list: lambdas_data
    collected,       \* lambdas_data as it was before the sort, until create_tables is called
    min_table_data,  \* print_lambda_list: min_table_data
    all_table_data,  \* print_lambda_list: all_table_data
    served,          \* responses of list_functions in the region being visited, until it is left
    processed,       \* loop bodies executed so far, in order, until the sort
    fetched          \* number of function records the provider has returned

vars == <<args, now, pc, exit_status, exception, stdout, csv_file, csv_written,
          issued, regions, ri, response, next_marker, fi, last_modified, logs,
          last_invocation, lambdas_data, collected, min_table_data,
          all_table_data, served, processed, fetched>>

-----------------------------------------------------------------------------
(* Bounds of the model *)

MaxFunctions == 2   \* function records the provider returns in one run
MaxPages == 2       \* pages of one region's list_functions chain
MaxStreams == 2     \* log streams in one describe_log_streams response
MaxFilter == 2      \* largest --inactive-days-filter

-----------------------------------------------------------------------------
(* Program constants *)

None == "None"

MS_PER_DAY == 86400000

BYTE_TO_MB == 1024 * 1024

ALL_TABLE_HEADERS ==
    << "Region", "Function", "Memory (MB)", "Code Size (MB)",
       "Timeout (seconds)", "Runtime", "Last Modified", "Last Invocation",
       "Description" >>

SORT_KEYS == {"region", "last-modified", "last-invocation", "runtime"}

UNKNOWN == -1

-----------------------------------------------------------------------------
(* Inputs *)

SortByValues == SORT_KEYS \cup {"name"}

CsvValues == {None, "out.csv"}

\* defaults of the argparse declarations, lines 233-293
DefaultArgs ==
    [sort_by |-> "region", should_print_all |-> FALSE, csv |-> None,
     inactive_days_filter |-> 0]

\* The options act on disjoint stages (--inactive-days-filter on the
\* aggregation, --sort-by on the key check and the sort, --all and --csv on
\* the tables and sinks): each group takes all its values, the others default
ArgsValues ==
    {[DefaultArgs EXCEPT !.sort_by = k] : k \in SortByValues}
    \cup {[DefaultArgs EXCEPT !.inactive_days_filter = n] : n \in 0..MaxFilter}
    \cup {[DefaultArgs EXCEPT !.should_print_all = a, !.csv = c] :
            a \in BOOLEAN, c \in CsvValues}

\* noon of the third day of the epoch
ClockReadings == {[days |-> 2, millis |-> MS_PER_DAY \div 2]}

AvailableRegions == << "us-east-1", "eu-west-1" >>

\* lastEventTimestamp values: the epoch (two whole days before the clock
\* reading), a quarter of a day before the clock reading, half a day after it
LastEventTimestamps == {0, 2 * MS_PER_DAY + MS_PER_DAY \div 4, 3 * MS_PER_DAY}

\* LastModified as the inventory API sends it: 'YYYY-MM-DD' (the day number),
\* 'T', 'HH:MM:SS' (the second of the day), a dot, milliseconds and zone
ModifiedEarly == [date |-> 0, time |-> 0, fraction |-> "000+0000"]
ModifiedLate == [date |-> 1, time |-> 43200, fraction |-> "517+0000"]

FunctionPool ==
    { [FunctionName |-> "alpha", MemorySize |-> 128, CodeSize |-> 131072,
       Timeout |-> 3, Runtime |-> "python3.9", LastModified |-> ModifiedLate,
       Description |-> "resize images"],
      [FunctionName |-> "beta", MemorySize |-> 256, CodeSize |-> 2097152,
       Timeout |-> 30, LastModified |-> ModifiedEarly,
       Description |-> ""],
      [FunctionName |-> "gamma", MemorySize |-> 512, CodeSize |-> 0,
       Timeout |-> 900, Runtime |-> "nodejs", LastModified |-> ModifiedLate] }

SeqsUpTo(S, n) == UNION {[1..m -> S] : m \in 0..n}

Marker(k) == "marker" \o ToString(k)

\* Answers of list_functions for page number k of a region, when the
\* provider may still return budget function records
ListFunctionsResponses(k, budget) ==
    LET fss == SeqsUpTo(FunctionPool, budget)
    IN  {[Functions |-> fs] : fs \in fss}
        \cup (IF k < MaxPages
              THEN {[Functions |-> fs, NextMarker |-> Marker(k)] : fs \in fss}
              ELSE {})

LogStreams ==
    {[logStreamName |-> "stream"]}
    \cup {[logStreamName |-> "stream", lastEventTimestamp |-> t] :
            t \in LastEventTimestamps}

\* Outcomes of describe_log_streams: a ClientError or a response
DescribeLogStreamsOutcomes ==
    {[error |-> "ClientError"]}
    \cup {[logStreams |-> ss] : ss \in SeqsUpTo(LogStreams, MaxStreams)}

-----------------------------------------------------------------------------
(* Pure functions *)

\* str comparison (code point order) on the strings the sort keys take
StringOrder == << "", "eu-west-1", "nodejs", "python3.9", "us-east-1" >>

StrRank(s) == CHOOSE i \in 1..Len(StringOrder) : StringOrder[i] = s

MaxOf(seq) ==
    CHOOSE m \in {seq[i] : i \in 1..Len(seq)} :
        \A i \in 1..Len(seq) : seq[i] <= m

\* (a - b).days of two datetimes: the timedelta is normalised so that its
\* part below one day is not negative
TimedeltaDays(a, b) ==
    (a.days - b.days) + ((a.millis - b.millis) \div MS_PER_DAY)

\* a < b of two datetimes
DatetimeLess(a, b) ==
    a.days < b.days \/ (a.days = b.days /\ a.millis < b.millis)

\* datetime.fromtimestamp(epoch_millis / 1000)
FromTimestamp(epoch_millis) ==
    [days |-> epoch_millis \div MS_PER_DAY, millis |-> epoch_millis % MS_PER_DAY]

\* datetime.strptime(s.split('.')[0], DATETIME_FORMAT): what follows the dot
\* is dropped
ParseLastModified(s) == [days |-> s.date, millis |-> s.time * 1000]

get_days_ago(datetime_obj, clock) ==
    LET days_ago == TimedeltaDays(clock, datetime_obj)
    IN  IF days_ago = 1 THEN "Yesterday"
        ELSE IF days_ago > 1 THEN ToString(days_ago) \o " days ago"
        ELSE "Today"

\* variant: the sentinel initialised to 0 instead of -1
get_last_invocation_zero_sentinel(outcome) ==
    IF "error" \in DOMAIN outcome
    THEN 0
    ELSE LET streams == outcome.logStreams
             log_streams_timestamp ==
                 [i \in 1..Len(streams) |->
                     IF "lastEventTimestamp" \in DOMAIN streams[i]
                     THEN streams[i].lastEventTimestamp
                     ELSE 0]
         IN  IF log_streams_timestamp # <<>>
             THEN MaxOf(log_streams_timestamp)
             ELSE 0

get_last_invocation(outcome) ==
    IF "error" \in DOMAIN outcome
    THEN UNKNOWN
    ELSE LET streams == outcome.logStreams
             log_streams_timestamp ==
                 [i \in 1..Len(streams) |->
                     IF "lastEventTimestamp" \in DOMAIN streams[i]
                     THEN streams[i].lastEventTimestamp
                     ELSE 0]
         IN  IF log_streams_timestamp # <<>>
             THEN MaxOf(log_streams_timestamp)
             ELSE UNKNOWN

\* variant: >= in place of > at line 192
FilteredOut_inclusive(li, clock, threshold) ==
    /\ li # UNKNOWN
    /\ threshold >= TimedeltaDays(clock, FromTimestamp(li))

\* the test of lines 187-193 that skips the append
FilteredOut(li, clock, threshold) ==
    /\ li # UNKNOWN
    /\ threshold > TimedeltaDays(clock, FromTimestamp(li))

\* what get_last_invocation returns over all outcomes of describe_log_streams
LastInvocationResults ==
    {get_last_invocation(outcome) : outcome \in DescribeLogStreamsOutcomes}

\* '%.2f' % (code_size / BYTE_TO_MB): correctly rounded, ties to even
FormatMB(code_size) ==
    LET num == code_size * 100
        fl == num \div BYTE_TO_MB
        rem == num % BYTE_TO_MB
        q == IF 2 * rem > BYTE_TO_MB \/ (2 * rem = BYTE_TO_MB /\ fl % 2 = 1)
             THEN fl + 1 ELSE fl
        frac == q % 100
    IN  ToString(q \div 100) \o "." \o
        (IF frac < 10 THEN "0" \o ToString(frac) ELSE ToString(frac))

LambdaData(region, function_data, modified, invocation) ==
    ("region" :> region)
    @@ ("function-data" :> function_data)
    @@ ("last-modified" :> modified)
    @@ ("last-invocation" :> invocation)
    @@ ("runtime" :> (IF "Runtime" \in DOMAIN function_data
                      THEN function_data.Runtime ELSE ""))

\* x[key] < y[key] as Python evaluates it for the key's type
KeyLess(x, y, key) ==
    IF key \in {"region", "runtime"}
    THEN StrRank(x[key]) < StrRank(y[key])
    ELSE IF key = "last-modified"
    THEN DatetimeLess(x[key], y[key])
    ELSE x[key] < y[key]

\* variant: an element goes in front of the elements equal to it
RECURSIVE SortBy_unstable(_, _)
SortBy_unstable(data, key) ==
    IF data = <<>> THEN <<>>
    ELSE LET n == Len(data)
             sorted == SortBy_unstable(SubSeq(data, 1, n - 1), key)
             x == data[n]
             k == Cardinality({i \in 1..Len(sorted) : KeyLess(sorted[i], x, key)})
         IN  SubSeq(sorted, 1, k) \o <<x>> \o SubSeq(sorted, k + 1, Len(sorted))

\* list.sort(key=...): ascending and stable
RECURSIVE SortBy(_, _)
SortBy(data, key) ==
    IF data = <<>> THEN <<>>
    ELSE LET n == Len(data)
             sorted == SortBy(SubSeq(data, 1, n - 1), key)
             x == data[n]
             \* x goes behind every element that is not greater than it
             k == Cardinality({i \in 1..Len(sorted) : ~KeyLess(x, sorted[i], key)})
         IN  SubSeq(sorted, 1, k) \o <<x>> \o SubSeq(sorted, k + 1, Len(sorted))

\* the row of lines 129-139
TableRow(lambda_data, clock) ==
    LET function_data == lambda_data["function-data"]
        invocation_cell ==
            IF lambda_data["last-invocation"] # -1
            THEN get_days_ago(FromTimestamp(lambda_data["last-invocation"]), clock)
            ELSE "N/A (no invocations?)"
    IN  << lambda_data["region"],
           function_data.FunctionName,
           ToString(function_data.MemorySize),
           FormatMB(function_data.CodeSize),
           ToString(function_data.Timeout),
           IF "Runtime" \in DOMAIN function_data THEN function_data.Runtime ELSE "",
           get_days_ago(lambda_data["last-modified"], clock),
           invocation_cell,
           "\"" \o function_data.Description \o "\"" >>

\* function_data['Description'] raises KeyError
RaisesKeyError(data) ==
    \E i \in 1..Len(data) : "Description" \notin DOMAIN data[i]["function-data"]

AllTableData(data, clock) ==
    <<ALL_TABLE_HEADERS>> \o [i \in 1..Len(data) |-> TableRow(data[i], clock)]

\* lines 141-150
MinTableData(full, should_print_all) ==
    IF should_print_all
    THEN full
    ELSE [i \in 1..Len(full) |->
            << full[i][1], full[i][2], full[i][6],
               full[i][Len(full[i]) - 1], full[i][Len(full[i])] >>]

RECURSIVE Join(_, _)
Join(row, sep) ==
    IF row = <<>> THEN ""
    ELSE IF Len(row) = 1 THEN row[1]
    ELSE row[1] \o sep \o Join(Tail(row), sep)

\* lines 219-222
CsvLines(full) == [i \in 1..Len(full) |-> Join(full[i], ",") \o "\n"]

-----------------------------------------------------------------------------
(* Initial state: arguments parsed, nothing run yet *)

NoResponse == [Functions |-> <<>>]
NoLogs == [logStreams |-> <<>>]
NoDatetime == [days |-> 0, millis |-> 0]

Init ==
    /\ args \in ArgsValues
    /\ now \in ClockReadings
    /\ pc = "main"
    /\ exit_status = -1
    /\ exception = None
    /\ stdout = <<>>
    /\ csv_file = <<>>
    /\ csv_written = FALSE
    /\ issued = {}
    /\ regions = <<>>
    /\ ri = 0
    /\ response = NoResponse
    /\ next_marker = None
    /\ fi = 0
    /\ last_modified = NoDatetime
    /\ logs = NoLogs
    /\ last_invocation = UNKNOWN
    /\ lambdas_data = <<>>
    /\ collected = <<>>
    /\ min_table_data = <<>>
    /\ all_table_data = <<>>
    /\ served = <<>>
    /\ processed = <<>>
    /\ fetched = 0

-----------------------------------------------------------------------------
(* __main__, lines 295-300 *)

\* variant: the error is printed but exit(1) is missing
RejectSortKey_no_exit ==
    /\ pc = "main"
    /\ args.sort_by \notin SORT_KEYS
    /\ stdout' = Append(stdout,
          [kind |-> "text",
           text |-> "ERROR: Illegal column name: " \o args.sort_by \o "."])
    /\ pc' = "print_lambda_list"
    /\ UNCHANGED <<args, now, exit_status, exception, csv_file, csv_written,
                   issued, regions, ri, response, next_marker, fi,
                   last_modified, logs, last_invocation, lambdas_data,
                   collected, min_table_data, all_table_data, served,
                   processed, fetched>>

RejectSortKey ==
    /\ pc = "main"
    /\ args.sort_by \notin SORT_KEYS
    /\ stdout' = Append(stdout,
          [kind |-> "text",
           text |-> "ERROR: Illegal column name: " \o args.sort_by \o "."])
    /\ exit_status' = 1
    /\ pc' = "exited"
    /\ UNCHANGED <<args, now, exception, csv_file, csv_written, issued, regions,
                   ri, response, next_marker, fi, last_modified, logs,
                   last_invocation, lambdas_data, collected, min_table_data,
                   all_table_data, served, processed, fetched>>

AcceptSortKey ==
    /\ pc = "main"
    /\ args.sort_by \in SORT_KEYS
    /\ pc' = "print_lambda_list"
    /\ UNCHANGED <<args, now, exit_status, exception, stdout, csv_file,
                   csv_written, issued, regions, ri, response, next_marker, fi,
                   last_modified, logs, last_invocation, lambdas_data,
                   collected, min_table_data, all_table_data, served,
                   processed, fetched>>

(* print_lambda_list, lines 160-162 *)
ListRegions ==
    /\ pc = "print_lambda_list"
    /\ regions' = AvailableRegions
    /\ issued' = issued \cup {"get_available_regions"}
    /\ lambdas_data' = <<>>
    /\ ri' = 1
    /\ pc' = "region"
    /\ UNCHANGED <<args, now, exit_status, exception, stdout, csv_file,
                   csv_written, response, next_marker, fi, last_modified, logs,
                   last_invocation, collected, min_table_data, all_table_data,
                   served, processed, fetched>>

(* lines 163-166: next region of the for loop, first list_functions call *)
StartRegion ==
    /\ pc = "region"
    /\ ri <= Len(regions)
    /\ \E r \in ListFunctionsResponses(1, MaxFunctions - fetched) :
          /\ response' = r
          /\ served' = <<r>>
          /\ fetched' = fetched + Len(r.Functions)
    /\ next_marker' = None
    /\ issued' = issued \cup {"list_functions"}
    /\ pc' = "while"
    /\ UNCHANGED <<args, now, exit_status, exception, stdout, csv_file,
                   csv_written, regions, ri, fi, last_modified, logs,
                   last_invocation, lambdas_data, collected, min_table_data,
                   all_table_data, processed>>

(* line 166 when list_functions raises ClientError: nothing catches it *)
StartRegionFails ==
    /\ pc = "region"
    /\ ri <= Len(regions)
    /\ issued' = issued \cup {"list_functions"}
    /\ served' = <<>>
    /\ exception' = "ClientError"
    /\ exit_status' = 1
    /\ pc' = "crashed"
    /\ UNCHANGED <<args, now, stdout, csv_file, csv_written, regions, ri,
                   response, next_marker, fi, last_modified, logs,
                   last_invocation, lambdas_data, collected, min_table_data,
                   all_table_data, processed, fetched>>

(* lines 167-173: loop test passes, the page has functions *)
EnterPage ==
    /\ pc = "while"
    /\ next_marker # ""
    /\ response.Functions # <<>>
    /\ next_marker' = ""
    /\ fi' = 1
    /\ pc' = "for"
    /\ UNCHANGED <<args, now, exit_status, exception, stdout, csv_file,
                   csv_written, issued, regions, ri, response, last_modified,
                   logs, last_invocation, lambdas_data, collected,
                   min_table_data, all_table_data, served, processed, fetched>>

(* lines 167-171: loop test passes, the page is empty: continue *)
SkipEmptyPage ==
    /\ pc = "while"
    /\ next_marker # ""
    /\ response.Functions = <<>>
    /\ next_marker' = ""
    /\ pc' = "while"
    /\ UNCHANGED <<args, now, exit_status, exception, stdout, csv_file,
                   csv_written, issued, regions, ri, response, fi,
                   last_modified, logs, last_invocation, lambdas_data,
                   collected, min_table_data, all_table_data, served,
                   processed, fetched>>

(* line 167: loop test fails, the for loop moves to the next region.  The
   variables of the loop body are not read again before they are assigned:
   they take their initial values *)
LeaveRegion ==
    /\ pc = "while"
    /\ next_marker = ""
    /\ ri' = ri + 1
    /\ pc' = IF ri < Len(regions) THEN "region" ELSE "sort"
    /\ response' = NoResponse
    /\ next_marker' = None
    /\ fi' = 0
    /\ last_modified' = NoDatetime
    /\ last_invocation' = UNKNOWN
    /\ served' = <<>>
    /\ UNCHANGED <<args, now, exit_status, exception, stdout, csv_file,
                   csv_written, issued, regions, logs, lambdas_data,
                   collected, min_table_data, all_table_data, processed,
                   fetched>>

(* lines 173-202: the body of the for loop for one function: last modified,
   get_last_invocation (lines 92-111) on the outcome of describe_log_streams,
   inactivity filter, append; then the next function or line 204 *)
ProcessFunction ==
    /\ pc = "for"
    /\ \E invocation \in LastInvocationResults :
          LET function_data == response.Functions[fi]
              modified == ParseLastModified(function_data.LastModified)
              skip == FilteredOut(invocation, now, args.inactive_days_filter)
          IN  /\ last_modified' = modified
              /\ last_invocation' = invocation
              /\ lambdas_data' =
                    IF skip THEN lambdas_data
                    ELSE Append(lambdas_data,
                                LambdaData(regions[ri], function_data,
                                           modified, invocation))
              /\ processed' = Append(processed,
                    [region |-> regions[ri],
                     function_data |-> function_data,
                     last_invocation |-> invocation,
                     clock |-> now])
    /\ issued' = issued \cup {"describe_log_streams"}
    /\ fi' = fi + 1
    /\ pc' = IF fi < Len(response.Functions) THEN "for" ELSE "page_end"
    /\ UNCHANGED <<args, now, exit_status, exception, stdout, csv_file,
                   csv_written, regions, ri, response, next_marker, logs,
                   collected, min_table_data, all_table_data, served, fetched>>

(* lines 205-207: the response carries NextMarker, the next page is fetched *)
NextPage ==
    /\ pc = "page_end"
    /\ "NextMarker" \in DOMAIN response
    /\ next_marker' = response.NextMarker
    /\ \E r \in ListFunctionsResponses(Len(served) + 1, MaxFunctions - fetched) :
          /\ response' = r
          /\ served' = Append(served, r)
          /\ fetched' = fetched + Len(r.Functions)
    /\ issued' = issued \cup {"list_functions"}
    /\ pc' = "while"
    /\ UNCHANGED <<args, now, exit_status, exception, stdout, csv_file,
                   csv_written, regions, ri, fi, last_modified, logs,
                   last_invocation, lambdas_data, collected, min_table_data,
                   all_table_data, processed>>

(* line 207 when list_functions raises ClientError: nothing catches it *)
NextPageFails ==
    /\ pc = "page_end"
    /\ "NextMarker" \in DOMAIN response
    /\ next_marker' = response.NextMarker
    /\ issued' = issued \cup {"list_functions"}
    /\ exception' = "ClientError"
    /\ exit_status' = 1
    /\ pc' = "crashed"
    /\ UNCHANGED <<args, now, stdout, csv_file, csv_written, regions, ri,
                   response, fi, last_modified, logs, last_invocation,
                   lambdas_data, collected, min_table_data, all_table_data,
                   served, processed, fetched>>

(* line 205: no NextMarker in the response *)
LastPage ==
    /\ pc = "page_end"
    /\ "NextMarker" \notin DOMAIN response
    /\ pc' = "while"
    /\ UNCHANGED <<args, now, exit_status, exception, stdout, csv_file,
                   csv_written, issued, regions, ri, response, next_marker, fi,
                   last_modified, logs, last_invocation, lambdas_data,
                   collected, min_table_data, all_table_data, served,
                   processed, fetched>>

(* line 210 *)
Sort ==
    /\ pc = "sort"
    /\ collected' = lambdas_data
    /\ lambdas_data' = SortBy(lambdas_data, args.sort_by)
    /\ processed' = <<>>
    /\ pc' = "create_tables"
    /\ UNCHANGED <<args, now, exit_status, exception, stdout, csv_file,
                   csv_written, issued, regions, ri, response, next_marker, fi,
                   last_modified, logs, last_invocation, min_table_data,
                   all_table_data, served, fetched>>

(* lines 212-214: create_tables returns, the table is printed *)
CreateTables ==
    /\ pc = "create_tables"
    /\ ~RaisesKeyError(lambdas_data)
    /\ all_table_data' = AllTableData(lambdas_data, now)
    /\ min_table_data' = MinTableData(all_table_data', args.should_print_all)
    /\ stdout' = Append(stdout, [kind |-> "table", rows |-> min_table_data'])
    /\ collected' = <<>>
    /\ pc' = "csv"
    /\ UNCHANGED <<args, now, exit_status, exception, csv_file, csv_written,
                   issued, regions, ri, response, next_marker, fi,
                   last_modified, logs, last_invocation, lambdas_data,
                   served, processed, fetched>>

(* line 138 when a record has no 'Description': KeyError, nothing catches it *)
CreateTablesFails ==
    /\ pc = "create_tables"
    /\ RaisesKeyError(lambdas_data)
    /\ exception' = "KeyError"
    /\ exit_status' = 1
    /\ collected' = <<>>
    /\ pc' = "crashed"
    /\ UNCHANGED <<args, now, stdout, csv_file, csv_written, issued, regions,
                   ri, response, next_marker, fi, last_modified, logs,
                   last_invocation, lambdas_data, min_table_data,
                   all_table_data, served, processed, fetched>>

(* lines 216-217 *)
NoCsv ==
    /\ pc = "csv"
    /\ args.csv = None
    /\ exit_status' = 0
    /\ pc' = "exited"
    /\ UNCHANGED <<args, now, exception, stdout, csv_file, csv_written, issued,
                   regions, ri, response, next_marker, fi, last_modified, logs,
                   last_invocation, lambdas_data, collected, min_table_data,
                   all_table_data, served, processed, fetched>>

\* variant: the table shown on the terminal is exported
WriteCsv_min_table ==
    /\ pc = "csv"
    /\ args.csv # None
    /\ csv_written' = TRUE
    /\ csv_file' = CsvLines(min_table_data)
    /\ exit_status' = 0
    /\ pc' = "exited"
    /\ UNCHANGED <<args, now, exception, stdout, issued, regions, ri, response,
                   next_marker, fi, last_modified, logs, last_invocation,
                   lambdas_data, collected, min_table_data, all_table_data,
                   served, processed, fetched>>

(* lines 219-222 *)
WriteCsv ==
    /\ pc = "csv"
    /\ args.csv # None
    /\ csv_written' = TRUE
    /\ csv_file' = CsvLines(all_table_data)
    /\ exit_status' = 0
    /\ pc' = "exited"
    /\ UNCHANGED <<args, now, exception, stdout, issued, regions, ri, response,
                   next_marker, fi, last_modified, logs, last_invocation,
                   lambdas_data, collected, min_table_data, all_table_data,
                   served, processed, fetched>>

Next ==
    \/ RejectSortKey
    \/ AcceptSortKey
    \/ ListRegions
    \/ StartRegion
    \/ StartRegionFails
    \/ EnterPage
    \/ SkipEmptyPage
    \/ LeaveRegion
    \/ ProcessFunction
    \/ NextPage
    \/ NextPageFails
    \/ LastPage
    \/ Sort
    \/ CreateTables
    \/ CreateTablesFails
    \/ NoCsv
    \/ WriteCsv

Spec == Init /\ [][Next]_vars

-----------------------------------------------------------------------------
(* get_last_invocation on its own: the call of lines 181-185 for any region
   and function, every outcome of describe_log_streams *)

InitResolver ==
    /\ args = DefaultArgs
    /\ now \in ClockReadings
    /\ pc = "get_last_invocation"
    /\ exit_status = -1
    /\ exception = None
    /\ stdout = <<>>
    /\ csv_file = <<>>
    /\ csv_written = FALSE
    /\ issued = {"get_available_regions", "list_functions"}
    /\ regions = AvailableRegions
    /\ ri \in 1..Len(AvailableRegions)
    /\ response \in {[Functions |-> <<f>>] : f \in FunctionPool}
    /\ next_marker = ""
    /\ fi = 1
    /\ last_modified = NoDatetime
    /\ logs = NoLogs
    /\ last_invocation = UNKNOWN
    /\ lambdas_data = <<>>
    /\ collected = <<>>
    /\ min_table_data = <<>>
    /\ all_table_data = <<>>
    /\ served = <<response>>
    /\ processed = <<>>
    /\ fetched = 1

(* lines 92-102: describe_log_streams raises ClientError, -1 is returned *)
LogStreamsQueryFails ==
    /\ pc = "get_last_invocation"
    /\ logs' = [error |-> "ClientError"]
    /\ last_invocation' = get_last_invocation(logs')
    /\ issued' = issued \cup {"describe_log_streams"}
    /\ pc' = "returned"
    /\ UNCHANGED <<args, now, exit_status, exception, stdout, csv_file,
                   csv_written, regions, ri, response, next_marker, fi,
                   last_modified, lambdas_data, collected, min_table_data,
                   all_table_data, served, processed, fetched>>

(* lines 92-111: describe_log_streams answers, the maximum or -1 is returned *)
LogStreamsQueryAnswers ==
    /\ pc = "get_last_invocation"
    /\ \E streams \in SeqsUpTo(LogStreams, MaxStreams) :
          logs' = [logStreams |-> streams]
    /\ last_invocation' = get_last_invocation(logs')
    /\ issued' = issued \cup {"describe_log_streams"}
    /\ pc' = "returned"
    /\ UNCHANGED <<args, now, exit_status, exception, stdout, csv_file,
                   csv_written, regions, ri, response, next_marker, fi,
                   last_modified, lambdas_data, collected, min_table_data,
                   all_table_data, served, processed, fetched>>

NextResolver ==
    \/ LogStreamsQueryFails
    \/ LogStreamsQueryAnswers

SpecResolver == InitResolver /\ [][NextResolver]_vars

-----------------------------------------------------------------------------
(* Vocabulary of the properties *)

Aggregating == pc \in {"region", "while", "for", "page_end", "sort"}

\* the sort of line 210 has run and create_tables is about to be called
Sorted == pc = "create_tables"

\* create_tables has returned
TablesCreated == pc = "csv" \/ (pc = "exited" /\ exit_status = 0)

\* the test of the while loop is about to fail: the region is done
RegionLeft == pc = "while" /\ next_marker = ""

RECURSIVE Flatten(_)
Flatten(seqs) == IF seqs = <<>> THEN <<>> ELSE Head(seqs) \o Flatten(Tail(seqs))

\* whole days from the instant of epoch milliseconds li to the clock reading
WholeDays(li, clock) ==
    LET elapsed == clock.days * MS_PER_DAY + clock.millis - li
    IN  CHOOSE d \in -4..4 :
            d * MS_PER_DAY <= elapsed /\ elapsed < (d + 1) * MS_PER_DAY

Known(p) == p.last_invocation # -1

\* what identifies a processed function in lambdas_data
Identity(p) == <<p.region, p.function_data, p.last_invocation>>

IdentityOfData(x) == <<x["region"], x["function-data"], x["last-invocation"]>>

Identities(ps) == [i \in 1..Len(ps) |-> Identity(ps[i])]

IdentitiesOfData(data) == [i \in 1..Len(data) |-> IdentityOfData(data[i])]

KnownData(x) == x["last-invocation"] # -1

\* x[key] <= y[key] and x[key] = y[key] in the key's natural order
KeyLeq(x, y, key) ==
    IF key \in {"region", "runtime"}
    THEN StrRank(x[key]) <= StrRank(y[key])
    ELSE IF key = "last-modified"
    THEN ~DatetimeLess(y[key], x[key])
    ELSE x[key] <= y[key]

KeyEq(x, y, key) == x[key] = y[key]

IndexPermutations(n) ==
    {p \in [1..n -> 1..n] : \A i, j \in 1..n : i # j => p[i] # p[j]}

-----------------------------------------------------------------------------
(* Properties *)

\* C1: when the while loop of a region ends, the pagination cursor is
\* exhausted (the last response fetched carries no NextMarker) and the
\* function records processed for the region are exactly the records of all
\* the pages served for it, once each and in page order.
C1_PaginationWalksWholeChain ==
    RegionLeft =>
        /\ "NextMarker" \notin DOMAIN served[Len(served)]
        /\ LET of_region(p) == p.region = regions[ri]
               done == SelectSeq(processed, of_region)
           IN  [i \in 1..Len(done) |-> done[i].function_data]
                   = Flatten([i \in 1..Len(served) |-> served[i].Functions])

\* C2: a provider error of the function-listing call never ends the run: no
\* run is terminated by an uncaught ClientError.
C2_RegionFailureTolerated ==
    ~(pc = "crashed" /\ exception = "ClientError")

\* C3: with a threshold N > 0, the records collected so far are, in order,
\* exactly the processed functions whose last invocation is unknown or whose
\* whole days of inactivity are at least N; the dropped ones are exactly those
\* with a known last invocation fewer than N whole days old.
C3_InactivityFilter ==
    (Aggregating /\ args.inactive_days_filter > 0) =>
        LET retained(p) ==
                \/ ~Known(p)
                \/ WholeDays(p.last_invocation, p.clock) >= args.inactive_days_filter
        IN  IdentitiesOfData(lambdas_data) = Identities(SelectSeq(processed, retained))

C3_Witness ==
    /\ pc = "sort"
    /\ args.inactive_days_filter > 0
    /\ \E i \in 1..Len(processed) :
          /\ Known(processed[i])
          /\ WholeDays(processed[i].last_invocation, processed[i].clock)
                < args.inactive_days_filter
    /\ \E i \in 1..Len(processed) : ~Known(processed[i])
    /\ Len(lambdas_data) = 1

\* C4: with the threshold 0, every processed function whose last invocation
\* is known is among the collected records, whatever the timestamp.
C4_ZeroThresholdRetainsKnown ==
    (Aggregating /\ args.inactive_days_filter = 0) =>
        SelectSeq(IdentitiesOfData(lambdas_data), LAMBDA t : t[3] # -1)
            = Identities(SelectSeq(processed, Known))

\* C5: without --all, every row of the summary table (header included) is
\* the region, function, last-modified and last-invocation cells of the same
\* row of the full table, in that order.
C5_SummaryIsProjection ==
    (TablesCreated /\ ~args.should_print_all) =>
        /\ Len(min_table_data) = Len(all_table_data)
        /\ \A i \in 1..Len(all_table_data) :
              min_table_data[i] = << all_table_data[i][1], all_table_data[i][2],
                                     all_table_data[i][7], all_table_data[i][8] >>

\* C6: when get_last_invocation has returned, the run goes on, and the
\* result is the unknown marker exactly when the log-stream query failed or
\* returned no stream; otherwise it is the greatest lastEventTimestamp of the
\* returned streams, a stream without the field counting as 0.
C6_LastInvocation ==
    pc = "returned" =>
        LET failed == "error" \in DOMAIN logs
            streams == IF failed THEN <<>> ELSE logs.logStreams
            stamp(i) == IF "lastEventTimestamp" \in DOMAIN streams[i]
                        THEN streams[i].lastEventTimestamp ELSE 0
        IN  /\ exception = None
            /\ (last_invocation = -1) <=> (failed \/ streams = <<>>)
            /\ streams # <<>> =>
                  /\ \E i \in 1..Len(streams) : last_invocation = stamp(i)
                  /\ \A i \in 1..Len(streams) : last_invocation >= stamp(i)

C6_Witness ==
    /\ pc = "returned"
    /\ "logStreams" \in DOMAIN logs
    /\ Len(logs.logStreams) = 2
    /\ "lastEventTimestamp" \notin DOMAIN logs.logStreams[1]
    /\ "lastEventTimestamp" \in DOMAIN logs.logStreams[2]
    /\ last_invocation = logs.logStreams[2].lastEventTimestamp
    /\ last_invocation > 0

\* C7: the records handed to create_tables are a permutation of the collected
\* records, non-decreasing by the sort key, and records with equal keys keep
\* their discovery order.
C7_SortedStablePermutation ==
    Sorted =>
        /\ Len(lambdas_data) = Len(collected)
        /\ \E p \in IndexPermutations(Len(collected)) :
              /\ \A i \in 1..Len(collected) : lambdas_data[i] = collected[p[i]]
              /\ \A i, j \in 1..Len(collected) :
                    i < j =>
                       /\ KeyLeq(lambdas_data[i], lambdas_data[j], args.sort_by)
                       /\ KeyEq(lambdas_data[i], lambdas_data[j], args.sort_by)
                             => p[i] < p[j]

C7_Witness ==
    /\ pc = "create_tables"
    /\ Len(collected) = 2
    /\ lambdas_data = << collected[2], collected[1] >>
    /\ collected[1] # collected[2]
    /\ collected[1]["last-invocation"] = -1 \/ collected[2]["last-invocation"] = -1

\* C8: with an illegal --sort-by the program prints the error naming the
\* value and exits with status 1 without any provider call, table or CSV
\* file; with a legal one it does not stop there and print_lambda_list runs.
C8_FailFastOnSortKey ==
    LET legal == args.sort_by \in {"region", "last-modified", "last-invocation", "runtime"}
        message == [kind |-> "text",
                    text |-> "ERROR: Illegal column name: " \o args.sort_by \o "."]
    IN  /\ ~legal =>
              /\ issued = {}
              /\ ~csv_written
              /\ \A i \in 1..Len(stdout) : stdout[i].kind # "table"
              /\ pc # "main" =>
                    (pc = "exited" /\ exit_status = 1 /\ stdout = <<message>>)
        /\ (legal /\ pc # "main") =>
              /\ \A i \in 1..Len(stdout) : stdout[i].kind # "text"
              /\ pc = "print_lambda_list" \/ "get_available_regions" \in issued

C8_Witness ==
    /\ pc = "exited"
    /\ args.sort_by = "name"
    /\ exit_status = 1

\* C9: after a run with --csv the file holds the header line and one line
\* per sorted record, each the nine cells of the full table joined by commas,
\* with or without --all, while the terminal got the table create_tables
\* returned for display (shorter than the full one without --all); without
\* --csv no file is written.
C9_CsvIsFullTable ==
    /\ args.csv = None => ~csv_written
    /\ (pc = "exited" /\ exit_status = 0) =>
          /\ stdout = << [kind |-> "table", rows |-> min_table_data] >>
          /\ ~args.should_print_all =>
                \A i \in 1..Len(min_table_data) : Len(min_table_data[i]) < 9
          /\ args.csv # None =>
                /\ csv_written
                /\ Len(csv_file) = 1 + Len(lambdas_data)
                /\ csv_file[1] = Join(ALL_TABLE_HEADERS, ",") \o "\n"
                /\ \A i \in 1..Len(lambdas_data) :
                      /\ Len(TableRow(lambdas_data[i], now)) = 9
                      /\ csv_file[i + 1]
                            = Join(TableRow(lambdas_data[i], now), ",") \o "\n"

C9_Witness ==
    /\ pc = "exited"
    /\ exit_status = 0
    /\ args.csv # None
    /\ ~args.should_print_all
    /\ Len(lambdas_data) = 2
    /\ Len(csv_file) = 3

\* C10: a record without Description (or without Runtime) never ends the run
\* with an error, and its row shows the empty string for the absent field,
\* the description between quote characters.
C10_AbsentFieldsDisplayedEmpty ==
    /\ exception # "KeyError"
    /\ TablesCreated =>
          \A i \in 1..Len(lambdas_data) :
              LET function_data == lambdas_data[i]["function-data"]
              IN  /\ "Runtime" \notin DOMAIN function_data
                        => all_table_data[i + 1][6] = ""
                  /\ "Description" \notin DOMAIN function_data
                        => all_table_data[i + 1][9] = "\"\""

====
